---- MODULE Spec2Model ----
(***************************************************************************)
(* The assignment engine of label-task-queue: the LabelQueue / QueueStep   *)
(* dispatch methods of models.py and the request handlers of app.py that   *)
(* configure a labelqueue and create tasks from it.                         *)
(*                                                                         *)
(* Tables are modelled by their rows: queuestep is the set of QueueStep    *)
(* rows, task the sequence of Task rows in id order.  A handler's HTTP     *)
(* response is the record built by Response.  Python's None for a foreign  *)
(* key or an id is NULL.                                                    *)
(***************************************************************************)
EXTENDS Integers, Sequences, FiniteSets, TLC

\* ------------------------------------------------------------------------
\* Bounds of the model
\* ------------------------------------------------------------------------
MaxStepId == 2
MaxTasks == 2
MaxLog == 4
NumProcs == 2
MaxRank == 3

\* ------------------------------------------------------------------------
\* Rows that exist before dispatch: labelqueues, users, datasets, records
\* ------------------------------------------------------------------------
NULL == 0

LabelQueues == {1, 2}
Users == {1, 2}
Datasets == {1, 2, 3}

\* ids a request may carry: the stored ones and one that refers to no row
LabelQueueInputs == LabelQueues \cup {3}
UserInputs == Users \cup {3}
DatasetInputs == Datasets \cup {4}

\* Dataset.records, in id order: dataset 1 holds records 1, 2, 3, dataset 2
\* holds record 4 and dataset 3 holds no record
dataset_records(d) ==
    IF d = 1 THEN <<1, 2, 3>> ELSE IF d = 2 THEN <<4>> ELSE <<>>

QueueType == {"sequential", "random", "consensus", "priority"}

\* num_records values a QueueStepCreate body may carry
NumRecordsInputs == {0, 1}

VARIABLES
    get_next_assignment,  \* what the attribute labelqueue.get_next_assignment is
    labelqueue_dataset,   \* LabelQueue.dataset_id, per labelqueue
    labelqueue_users,     \* LabelQueueUserLink rows: the users of each labelqueue
    queuestep,            \* the QueueStep rows
    task,                 \* the Task rows, in id order
    resp,                 \* the response of the last handler that ran
    log,                  \* the create_task responses so far (history)
    reqs,                 \* the create_task requests in flight, per worker thread
    ret                   \* the value returned by the last direct method call

vars == <<get_next_assignment, labelqueue_dataset, labelqueue_users, queuestep,
          task, resp, log, reqs, ret>>

db == <<labelqueue_dataset, labelqueue_users, queuestep, task>>

\* ------------------------------------------------------------------------
\* Values
\* ------------------------------------------------------------------------
NextTask(d, r, s) ==
    [kind |-> "NextTask", dataset_id |-> d, record_id |-> r, queuestep_id |-> s,
     exc |-> ""]

None ==
    [kind |-> "None", dataset_id |-> NULL, record_id |-> NULL,
     queuestep_id |-> NULL, exc |-> ""]

Raise(e) ==
    [kind |-> "raise", dataset_id |-> NULL, record_id |-> NULL,
     queuestep_id |-> NULL, exc |-> e]

\* get_active_queuestep's None
NoQueueStep ==
    [id |-> NULL, labelqueue_id |-> NULL, rank |-> NULL, type |-> "",
     num_records |-> 0, num_records_completed |-> 0, completed |-> FALSE]

\* Task.completed_data: a JSON object, as its set of key-value pairs
EmptyData == {}

Task(id, record_id, dataset_id, user_id, queuestep_id, labelqueue_id) ==
    [id |-> id, record_id |-> record_id, dataset_id |-> dataset_id,
     user_id |-> user_id, queuestep_id |-> queuestep_id,
     labelqueue_id |-> labelqueue_id, completed |-> FALSE,
     completed_data |-> EmptyData]

Response(op, q, u, status, detail, reason, task_id) ==
    [op |-> op, labelqueue_id |-> q, user_id |-> u, status |-> status,
     detail |-> detail, reason |-> reason, task_id |-> task_id]

NoResponse == Response("", NULL, NULL, 0, "", "", NULL)

\* resp in a specification that does not observe the responses
Unobserved == Response("unobserved", NULL, NULL, 0, "", "", NULL)

\* the handler returns r
Respond(r) == resp' = IF resp = Unobserved THEN Unobserved ELSE r

\* ------------------------------------------------------------------------
\* Relationships
\* ------------------------------------------------------------------------
RECURSIVE SeqById(_)
SeqById(S) ==
    IF S = {} THEN <<>>
    ELSE LET m == CHOOSE x \in S : \A y \in S : x.id <= y.id
         IN  <<m>> \o SeqById(S \ {m})

\* LabelQueue.queuesteps
labelqueue_queuesteps(q) ==
    SeqById({s \in queuestep : s.labelqueue_id = q})

\* LabelQueue.tasks
labelqueue_tasks(q) ==
    SelectSeq(task, LAMBDA t : t.labelqueue_id = q)

\* ------------------------------------------------------------------------
\* models.py: the dispatch methods
\* ------------------------------------------------------------------------
\* Python's min(list, key=rank): the first element of least rank
RECURSIVE MinByRank(_)
MinByRank(steps) ==
    IF Len(steps) = 1 THEN steps[1]
    ELSE LET m == MinByRank(Tail(steps))
         IN  IF m.rank < steps[1].rank THEN m ELSE steps[1]

\* a faulty variant: the completed filter is dropped
get_active_queuestep_unfiltered(q) ==
    LET all == labelqueue_queuesteps(q)
    IN  IF Len(all) < 1 THEN NoQueueStep ELSE MinByRank(all)

\* LabelQueue.get_active_queuestep
get_active_queuestep(q) ==
    LET incomplete_queuesteps ==
            SelectSeq(labelqueue_queuesteps(q), LAMBDA x : ~x.completed)
    IN  IF Len(incomplete_queuesteps) < 1 THEN NoQueueStep
        ELSE MinByRank(incomplete_queuesteps)

\* a faulty variant: tasks are excluded per step, not per labelqueue
get_remaining_records_per_step(step) ==
    LET tasks == SelectSeq(task, LAMBDA t : t.queuestep_id = step.id)
        assigned_record_ids == {tasks[i].record_id : i \in DOMAIN tasks}
    IN  SelectSeq(dataset_records(labelqueue_dataset[step.labelqueue_id]),
                  LAMBDA r : r \notin assigned_record_ids)

\* QueueStep._get_remaining_records, for a labelqueue that has a dataset
get_remaining_records(step) ==
    LET tasks == labelqueue_tasks(step.labelqueue_id)
        assigned_record_ids == {tasks[i].record_id : i \in DOMAIN tasks}
    IN  SelectSeq(dataset_records(labelqueue_dataset[step.labelqueue_id]),
                  LAMBDA r : r \notin assigned_record_ids)

\* Python's min over a non-empty list of ids
RECURSIVE Min(_)
Min(ids) ==
    IF Len(ids) = 1 THEN ids[1]
    ELSE LET m == Min(Tail(ids)) IN IF m < ids[1] THEN m ELSE ids[1]

\* self.labelqueue.dataset.records when the labelqueue has no dataset
NoDatasetError == "AttributeError: 'NoneType' object has no attribute 'records'"

\* a faulty variant: any record of the dataset, assigned in the labelqueue or not
get_next_task_random_assigned(step) ==
    IF labelqueue_dataset[step.labelqueue_id] = NULL THEN {Raise(NoDatasetError)}
    ELSE LET record_ids == dataset_records(labelqueue_dataset[step.labelqueue_id])
         IN  IF Len(record_ids) = 0 THEN {None}
             ELSE {NextTask(labelqueue_dataset[step.labelqueue_id],
                            record_ids[i], step.id) : i \in DOMAIN record_ids}

\* QueueStep._get_next_task_random: the values a call may return
get_next_task_random(step) ==
    IF labelqueue_dataset[step.labelqueue_id] = NULL THEN {Raise(NoDatasetError)}
    ELSE LET remaining_record_ids == get_remaining_records(step)
         IN  IF Len(remaining_record_ids) = 0 THEN {None}
             ELSE {NextTask(labelqueue_dataset[step.labelqueue_id],
                            remaining_record_ids[i], step.id) :
                       i \in DOMAIN remaining_record_ids}

\* a faulty variant: any remaining record, not the one of least id
get_next_task_sequential_any(step) == get_next_task_random(step)

\* QueueStep._get_next_task_sequential: the values a call may return
get_next_task_sequential(step) ==
    IF labelqueue_dataset[step.labelqueue_id] = NULL THEN {Raise(NoDatasetError)}
    ELSE LET remaining_record_ids == get_remaining_records(step)
         IN  IF Len(remaining_record_ids) = 0 THEN {None}
             ELSE {NextTask(labelqueue_dataset[step.labelqueue_id],
                            Min(remaining_record_ids), step.id)}

\* QueueStep._get_next_task_consensus
get_next_task_consensus(step, user_id) ==
    {Raise("NotImplementedError: _get_next_task_consensus has not been implemented")}

\* QueueStep._get_next_task_priority
get_next_task_priority(step, user_id) ==
    {Raise("NotImplementedError: _get_next_task_priority has not been implemented")}

\* QueueStep.get_next_task
QueueStep_get_next_task(step, user_id) ==
    CASE step.type = "sequential" -> get_next_task_sequential(step)
      [] step.type = "random" -> get_next_task_random(step)
      [] step.type = "consensus" -> get_next_task_consensus(step, user_id)
      [] step.type = "priority" -> get_next_task_priority(step, user_id)
      [] OTHER -> {Raise("NotImplementedError: queue policy has not been implemented")}

\* active_queuestep.get_next_task when get_active_queuestep returned None
NoActiveStepError ==
    "AttributeError: 'NoneType' object has no attribute 'get_next_task'"

\* LabelQueue.get_next_task
LabelQueue_get_next_task(q, user_id) ==
    LET active_queuestep == get_active_queuestep(q)
    IN  IF active_queuestep = NoQueueStep THEN {Raise(NoActiveStepError)}
        ELSE QueueStep_get_next_task(active_queuestep, user_id)

\* ------------------------------------------------------------------------
\* app.py: create_task
\* ------------------------------------------------------------------------
NoMethodError ==
    "AttributeError: 'LabelQueue' object has no attribute 'get_next_assignment'"

\* The call labelqueue.get_next_assignment(user_id) of create_task.  LabelQueue
\* defines its dispatch method under the name get_next_task; with the class as
\* it stands the attribute lookup raises AttributeError, and with the method
\* bound under the name the handler uses the call runs LabelQueue.get_next_task.
\* The variable get_next_assignment says which of the two the program runs.
call_get_next_assignment(q, user_id) ==
    IF get_next_assignment = "get_next_task" THEN LabelQueue_get_next_task(q, user_id)
    ELSE {Raise(NoMethodError)}

\* a faulty variant: every user passes the membership check
is_member_anyone(q, user_id) == TRUE

\* create_task: user_id in {user.id for user in labelqueue.users}
is_member(q, user_id) == user_id \in labelqueue_users[q]

\* create_task up to the end of its try block: what the request has after its
\* reads, either a response (the request is over) or the NextTask / None that
\* get_next_assignment returned
create_task_select(q, user_id) ==
    IF q \notin LabelQueues
    THEN {[over |-> TRUE, next_task |-> None,
           resp |-> Response("create_task", q, user_id, 404,
                             "LabelQueue not found", "", NULL)]}
    ELSE IF ~is_member(q, user_id)
    THEN {[over |-> TRUE, next_task |-> None,
           resp |-> Response("create_task", q, user_id, 404,
                             "User does not belong to labelqueue", "", NULL)]}
    ELSE {IF nt.kind = "raise"
          THEN [over |-> TRUE, next_task |-> None,
                resp |-> Response("create_task", q, user_id, 404,
                                  "Unable to get task assignment", nt.exc, NULL)]
          ELSE [over |-> FALSE, next_task |-> nt, resp |-> NoResponse] :
             nt \in call_get_next_assignment(q, user_id)}

\* next_task.record_id when next_task is None: the exception leaves the handler
NoneTaskError == "AttributeError: 'NoneType' object has no attribute 'record_id'"

\* a faulty variant: a Task row is added before next_task is read
create_task_commit_early(q, user_id, next_task) ==
    IF next_task.kind = "None"
    THEN /\ task' = Append(task, Task(Len(task) + 1, NULL, NULL, user_id, NULL, q))
         /\ Respond(Response("create_task", q, user_id, 500,
                             "Internal Server Error", NoneTaskError, NULL))
    ELSE /\ task' = Append(task, Task(Len(task) + 1, next_task.record_id,
                                      next_task.dataset_id, user_id,
                                      next_task.queuestep_id, q))
         /\ Respond(Response("create_task", q, user_id, 200, "", "", Len(task) + 1))

\* create_task after its try block: the Task built from next_task and committed,
\* and the response
create_task_commit(q, user_id, next_task) ==
    IF next_task.kind = "None"
    THEN /\ task' = task
         /\ Respond(Response("create_task", q, user_id, 500,
                             "Internal Server Error", NoneTaskError, NULL))
    ELSE /\ task' = Append(task, Task(Len(task) + 1, next_task.record_id,
                                      next_task.dataset_id, user_id,
                                      next_task.queuestep_id, q))
         /\ Respond(Response("create_task", q, user_id, 200, "", "", Len(task) + 1))

\* create_task, run from its first line to its last with no other request
\* in between
create_task(q, user_id) ==
    /\ \E sel \in create_task_select(q, user_id) :
           IF sel.over THEN task' = task /\ Respond(sel.resp)
           ELSE create_task_commit(q, user_id, sel.next_task)
    /\ UNCHANGED <<get_next_assignment, labelqueue_dataset, labelqueue_users,
                   queuestep, reqs, ret>>

\* ------------------------------------------------------------------------
\* app.py: the handlers that configure a labelqueue
\* ------------------------------------------------------------------------
\* a faulty variant: the labelqueue is never found to have a dataset
has_dataset_never(q) == FALSE

\* register_dataset: if labelqueue.dataset
has_dataset(q) == labelqueue_dataset[q] # NULL

register_dataset(q, d) ==
    /\ IF q \notin LabelQueues
       THEN /\ Respond(Response("register_dataset", q, NULL, 404,
                                "LabelQueue not found", "", NULL))
            /\ UNCHANGED labelqueue_dataset
       ELSE IF has_dataset(q)
       THEN /\ Respond(Response("register_dataset", q, NULL, 406,
                                "LabelQueue already has a dataset", "", NULL))
            /\ UNCHANGED labelqueue_dataset
       ELSE IF d \notin Datasets
       THEN /\ Respond(Response("register_dataset", q, NULL, 404,
                                "Dataset not found", "", NULL))
            /\ UNCHANGED labelqueue_dataset
       ELSE /\ labelqueue_dataset' = [labelqueue_dataset EXCEPT ![q] = d]
            /\ Respond(Response("register_dataset", q, NULL, 200, "", "", NULL))
    /\ UNCHANGED <<get_next_assignment, labelqueue_users, queuestep, task, reqs, ret>>

\* a faulty variant: the labelqueue's tasks are deleted with the binding
unregister_dataset_cascade(q, d) ==
    /\ IF q \in LabelQueues /\ d \in Datasets /\ labelqueue_dataset[q] = d
       THEN /\ labelqueue_dataset' = [labelqueue_dataset EXCEPT ![q] = NULL]
            /\ task' = SelectSeq(task, LAMBDA t : t.labelqueue_id # q)
            /\ Respond(Response("unregister_dataset", q, NULL, 200, "", "", NULL))
       ELSE /\ Respond(Response("unregister_dataset", q, NULL, 406,
                                "LabelQueue does not have a registered dataset",
                                "", NULL))
            /\ UNCHANGED <<labelqueue_dataset, task>>
    /\ UNCHANGED <<get_next_assignment, labelqueue_users, queuestep, reqs, ret>>

unregister_dataset(q, d) ==
    /\ IF q \notin LabelQueues
       THEN /\ Respond(Response("unregister_dataset", q, NULL, 404,
                                "LabelQueue not found", "", NULL))
            /\ UNCHANGED labelqueue_dataset
       ELSE IF d \notin Datasets
       THEN /\ Respond(Response("unregister_dataset", q, NULL, 404,
                                "Dataset not found", "", NULL))
            /\ UNCHANGED labelqueue_dataset
       ELSE IF labelqueue_dataset[q] = NULL
       THEN /\ Respond(Response("unregister_dataset", q, NULL, 406,
                                "LabelQueue does not have a registered dataset",
                                "", NULL))
            /\ UNCHANGED labelqueue_dataset
       ELSE IF labelqueue_dataset[q] # d
       THEN /\ Respond(Response("unregister_dataset", q, NULL, 406,
                                "Tried to unregister another dataset", "", NULL))
            /\ UNCHANGED labelqueue_dataset
       ELSE /\ labelqueue_dataset' = [labelqueue_dataset EXCEPT ![q] = NULL]
            /\ Respond(Response("unregister_dataset", q, NULL, 200, "", "", NULL))
    /\ UNCHANGED <<get_next_assignment, labelqueue_users, queuestep, task, reqs, ret>>

register_user(q, u) ==
    /\ IF q \notin LabelQueues
       THEN /\ Respond(Response("register_user", q, u, 404,
                                "LabelQueue not found", "", NULL))
            /\ UNCHANGED labelqueue_users
       ELSE IF u \notin Users
       THEN /\ Respond(Response("register_user", q, u, 404, "User not found", "", NULL))
            /\ UNCHANGED labelqueue_users
       ELSE IF u \notin labelqueue_users[q]
       THEN /\ labelqueue_users' =
                   [labelqueue_users EXCEPT ![q] = labelqueue_users[q] \cup {u}]
            /\ Respond(Response("register_user", q, u, 200, "", "", NULL))
       ELSE /\ Respond(Response("register_user", q, u, 406,
                                "User already present in labelqueue", "", NULL))
            /\ UNCHANGED labelqueue_users
    /\ UNCHANGED <<get_next_assignment, labelqueue_dataset, queuestep, task, reqs, ret>>

unregister_user(q, u) ==
    /\ IF q \notin LabelQueues
       THEN /\ Respond(Response("unregister_user", q, u, 404,
                                "LabelQueue not found", "", NULL))
            /\ UNCHANGED labelqueue_users
       ELSE IF u \notin Users
       THEN /\ Respond(Response("unregister_user", q, u, 404, "User not found", "", NULL))
            /\ UNCHANGED labelqueue_users
       ELSE IF u \in labelqueue_users[q]
       THEN /\ labelqueue_users' =
                   [labelqueue_users EXCEPT ![q] = labelqueue_users[q] \ {u}]
            /\ Respond(Response("unregister_user", q, u, 200, "", "", NULL))
       ELSE /\ Respond(Response("unregister_user", q, u, 406,
                                "User not registered so cannot unregister", "", NULL))
            /\ UNCHANGED labelqueue_users
    /\ UNCHANGED <<get_next_assignment, labelqueue_dataset, queuestep, task, reqs, ret>>

\* the greatest of a non-empty set of numbers
MaxOf(S) == CHOOSE m \in S : \A x \in S : x <= m

\* the id the table gives a new row: one more than the greatest id in use
next_queuestep_id ==
    IF queuestep = {} THEN 1 ELSE 1 + MaxOf({s.id : s \in queuestep})

\* create_queuestep: rank = 1, plus the greatest rank of the labelqueue's steps
new_rank(q) ==
    LET steps == {s \in queuestep : s.labelqueue_id = q}
    IN  IF Cardinality(steps) > 0 THEN 1 + MaxOf({s.rank : s \in steps}) ELSE 1

create_queuestep(q, type, num_records) ==
    /\ next_queuestep_id <= MaxStepId
    /\ IF type \notin QueueType
       THEN \* QueueStepBase.type: QueueType, checked on the request body
            /\ Respond(Response("create_queuestep", q, NULL, 422,
                                "type: value is not a valid enumeration member",
                                "", NULL))
            /\ UNCHANGED queuestep
       ELSE IF num_records <= 0
       THEN \* QueueStepBase.num_records: Field(gt=0), checked on the request body
            /\ Respond(Response("create_queuestep", q, NULL, 422,
                                "num_records: ensure this value is greater than 0",
                                "", NULL))
            /\ UNCHANGED queuestep
       ELSE IF q \notin LabelQueues
       THEN /\ Respond(Response("create_queuestep", q, NULL, 404,
                                "LabelQueue not found", "", NULL))
            /\ UNCHANGED queuestep
       ELSE IF \E s \in queuestep : s.rank = new_rank(q)
       THEN \* QueueStep.rank: Column("rank", Integer, unique=True); the commit fails
            /\ Respond(Response("create_queuestep", q, NULL, 500,
                                "Internal Server Error",
                                "IntegrityError: UNIQUE constraint failed: queuestep.rank",
                                NULL))
            /\ UNCHANGED queuestep
       ELSE /\ queuestep' = queuestep \cup
                   {[id |-> next_queuestep_id, labelqueue_id |-> q,
                     rank |-> new_rank(q), type |-> type,
                     num_records |-> num_records, num_records_completed |-> 0,
                     completed |-> FALSE]}
            /\ Respond(Response("create_queuestep", q, NULL, 200, "", "", NULL))
    /\ UNCHANGED <<get_next_assignment, labelqueue_dataset, labelqueue_users, task,
                   reqs, ret>>

\* update_queuestep: for k, v in queuestep_dict.items(): setattr(db_queuestep, k, v)
QueueStep_setattr(step, body) ==
    [k \in DOMAIN step |-> IF k \in DOMAIN body THEN body[k] ELSE step[k]]

\* setattr on the None that session.get returned for an id with no row
NoStepError == "AttributeError: 'NoneType' object has no attribute"

\* update_queuestep.  body holds the fields the request sets (exclude_unset),
\* among those QueueStepUpdate declares; num_records is Optional[int] there,
\* without the gt=0 of QueueStepBase, and type is checked to be a QueueType.
\* The handler tests the request body, not the row, for "not found".
update_queuestep(queuestep_id, body) ==
    /\ IF "type" \in DOMAIN body /\ body.type \notin QueueType
       THEN /\ Respond(Response("update_queuestep", NULL, NULL, 422,
                                "type: value is not a valid enumeration member",
                                "", NULL))
            /\ UNCHANGED queuestep
       ELSE IF \A s \in queuestep : s.id # queuestep_id
       THEN /\ Respond(Response("update_queuestep", NULL, NULL, 500,
                                "Internal Server Error", NoStepError, NULL))
            /\ UNCHANGED queuestep
       ELSE /\ queuestep' = {IF s.id = queuestep_id THEN QueueStep_setattr(s, body)
                             ELSE s : s \in queuestep}
            /\ Respond(Response("update_queuestep", NULL, NULL, 200, "", "", NULL))
    /\ UNCHANGED <<get_next_assignment, labelqueue_dataset, labelqueue_users, task,
                   reqs, ret>>

\* delete_queuestep: the row is deleted; QueueStep.tasks has no delete cascade,
\* so the step's tasks stay, with queuestep_id set to NULL
delete_queuestep(queuestep_id) ==
    /\ IF \E s \in queuestep : s.id = queuestep_id
       THEN /\ queuestep' = {s \in queuestep : s.id # queuestep_id}
            /\ task' = [i \in DOMAIN task |->
                           IF task[i].queuestep_id = queuestep_id
                           THEN [task[i] EXCEPT !.queuestep_id = NULL]
                           ELSE task[i]]
            /\ Respond(Response("delete_queuestep", NULL, NULL, 200, "", "", NULL))
       ELSE /\ Respond(Response("delete_queuestep", NULL, NULL, 404,
                                "QueueStep not found", "", NULL))
            /\ UNCHANGED <<queuestep, task>>
    /\ UNCHANGED <<get_next_assignment, labelqueue_dataset, labelqueue_users, reqs, ret>>

\* ------------------------------------------------------------------------
\* Direct calls of the dispatch methods
\* ------------------------------------------------------------------------
NoCall == [call |-> "", arg |-> NULL, value |-> None, again |-> None]

\* labelqueue.get_active_queuestep() is called and returns
call_get_active_queuestep(q) ==
    /\ ret' = [call |-> "get_active_queuestep", arg |-> q,
               value |-> get_active_queuestep(q), again |-> get_active_queuestep(q)]
    /\ UNCHANGED <<get_next_assignment, labelqueue_dataset, labelqueue_users,
                   queuestep, task, resp, log, reqs>>

\* labelqueue.get_next_task(user_id) is called twice in a row; each call
\* returns one of the values the method may return
call_LabelQueue_get_next_task(q, user_id) ==
    /\ \E v \in LabelQueue_get_next_task(q, user_id),
          w \in LabelQueue_get_next_task(q, user_id) :
           ret' = [call |-> "LabelQueue.get_next_task", arg |-> q,
                   value |-> v, again |-> w]
    /\ UNCHANGED <<get_next_assignment, labelqueue_dataset, labelqueue_users,
                   queuestep, task, resp, log, reqs>>

\* queuestep.get_next_task(user_id) is called twice in a row on the step with
\* the given id; each call returns one of the values the method may return
call_get_next_task(queuestep_id, user_id) ==
    /\ \E step \in queuestep :
           /\ step.id = queuestep_id
           /\ \E v \in QueueStep_get_next_task(step, user_id),
                 w \in QueueStep_get_next_task(step, user_id) :
                  ret' = [call |-> "get_next_task", arg |-> queuestep_id,
                          value |-> v, again |-> w]
    /\ UNCHANGED <<get_next_assignment, labelqueue_dataset, labelqueue_users,
                   queuestep, task, resp, log, reqs>>

\* ------------------------------------------------------------------------
\* create_task under concurrent requests: the handler is a sync endpoint, run
\* on a worker thread with a session of its own, and takes no lock.  A request
\* first reads (create_task_select), and commits its Task later
\* (create_task_commit); another request's reads and commit may fall between.
\* ------------------------------------------------------------------------
NoRequest ==
    [pc |-> "idle", labelqueue_id |-> NULL, user_id |-> NULL, next_task |-> None,
     remaining |-> 0, tasks_seen |-> 0, resp |-> NoResponse]

\* how many records _get_remaining_records finds for the labelqueue's active
\* step, and 0 when there is no such step or no dataset
remaining_count(q) ==
    LET active_queuestep == get_active_queuestep(q)
    IN  IF active_queuestep = NoQueueStep \/ labelqueue_dataset[q] = NULL THEN 0
        ELSE Len(get_remaining_records(active_queuestep))

\* lines 482-498 of create_task, on worker thread p
create_task_begin(p, q, user_id) ==
    /\ reqs[p].pc \in {"idle", "done"}
    /\ \E sel \in create_task_select(q, user_id) :
           reqs' = [reqs EXCEPT ![p] =
                       [pc |-> IF sel.over THEN "done" ELSE "selected",
                        labelqueue_id |-> q, user_id |-> user_id,
                        next_task |-> sel.next_task,
                        remaining |-> remaining_count(q),
                        tasks_seen |-> Len(labelqueue_tasks(q)),
                        resp |-> sel.resp]]
    /\ UNCHANGED <<get_next_assignment, labelqueue_dataset, labelqueue_users,
                   queuestep, task, resp, log, ret>>

\* lines 500-513 of create_task, on worker thread p
create_task_end(p) ==
    /\ reqs[p].pc = "selected"
    /\ create_task_commit(reqs[p].labelqueue_id, reqs[p].user_id, reqs[p].next_task)
    /\ reqs' = [reqs EXCEPT ![p].pc = "done", ![p].resp = resp']
    /\ UNCHANGED <<get_next_assignment, labelqueue_dataset, labelqueue_users,
                   queuestep, log, ret>>

\* ------------------------------------------------------------------------
\* States a specification may start in
\* ------------------------------------------------------------------------
QueueStep(id, q, rank, type, num_records, completed) ==
    [id |-> id, labelqueue_id |-> q, rank |-> rank, type |-> type,
     num_records |-> num_records, num_records_completed |-> 0,
     completed |-> completed]

\* QueueStep tables: rows with ids up to MaxStepId, of the labelqueues Q and the
\* types T, with pairwise distinct ranks (the rank column is unique)
QueueStepTables(Q, T) ==
    LET Ids == 1..MaxStepId
        Attr == [labelqueue_id : Q, type : T, completed : BOOLEAN]
    IN  {{QueueStep(i, a[i].labelqueue_id, rk[i], a[i].type, 1, a[i].completed) :
             i \in P} :
            P \in SUBSET Ids, a \in [Ids -> Attr], rk \in Permutations(Ids)}

\* the dataset a record belongs to
record_dataset(r) == CHOOSE d \in Datasets : \E i \in DOMAIN dataset_records(d) :
                                                dataset_records(d)[i] = r

Records == UNION {{dataset_records(d)[i] : i \in DOMAIN dataset_records(d)} : d \in Datasets}

RECURSIVE TasksOf(_, _)
\* the Task table that holds, in record order, one Task for every record r in
\* dom, issued in labelqueue f[r]
TasksOf(f, dom) ==
    IF dom = {} THEN <<>>
    ELSE LET r == MaxOf(dom)
             before == TasksOf(f, dom \ {r})
         IN  Append(before, Task(Len(before) + 1, r, record_dataset(r), 1, NULL, f[r]))

\* Task tables: every record has no Task, or one Task in one of the labelqueues
TaskTables ==
    {TasksOf(f, {r \in Records : f[r] # NULL}) :
        f \in [Records -> LabelQueues \cup {NULL}]}

\* ------------------------------------------------------------------------
\* Spec: the handlers, one request at a time
\* ------------------------------------------------------------------------
Init ==
    /\ get_next_assignment \in {"AttributeError", "get_next_task"}
    /\ labelqueue_dataset = [q \in LabelQueues |-> NULL]
    /\ labelqueue_users = [q \in LabelQueues |-> {}]
    /\ queuestep = {}
    /\ task = <<>>
    /\ resp = Unobserved
    /\ log = <<>>
    /\ reqs = [p \in 1..NumProcs |-> NoRequest]
    /\ ret = NoCall

\* Spec drives both labelqueues with one user, one dataset and the two
\* implemented policies; the responses are not observed
SpecQueues == {1, 2}
SpecUsers == {1}
SpecDatasets == {1}
SpecTypes == {"sequential", "random"}

Next ==
    \/ \E q \in SpecQueues, d \in SpecDatasets :
           register_dataset(q, d) /\ UNCHANGED log
    \/ \E q \in SpecQueues, d \in SpecDatasets :
           unregister_dataset(q, d) /\ UNCHANGED log
    \/ \E q \in SpecQueues, u \in SpecUsers :
           register_user(q, u) /\ UNCHANGED log
    \/ \E q \in SpecQueues, u \in SpecUsers :
           unregister_user(q, u) /\ UNCHANGED log
    \/ \E q \in SpecQueues, type \in SpecTypes, n \in NumRecordsInputs :
           create_queuestep(q, type, n) /\ UNCHANGED log
    \/ \E id \in 1..MaxStepId :
           delete_queuestep(id) /\ UNCHANGED log
    \/ \E q \in SpecQueues, u \in SpecUsers :
           Len(task) < MaxTasks /\ create_task(q, u) /\ UNCHANGED log

Spec == Init /\ [][Next]_vars

\* ------------------------------------------------------------------------
\* SpecMembers: users are registered to and unregistered from a configured
\* labelqueue while they request tasks; the responses are observed
\* ------------------------------------------------------------------------
InitMembers ==
    /\ get_next_assignment \in {"AttributeError", "get_next_task"}
    /\ \E d \in Datasets : labelqueue_dataset = [q \in LabelQueues |-> d]
    /\ labelqueue_users = [q \in LabelQueues |-> {}]
    /\ \E type \in {"sequential", "random"} :
           queuestep = {QueueStep(1, 1, 1, type, 1, FALSE)}
    /\ task = <<>>
    /\ resp = NoResponse
    /\ log = <<>>
    /\ reqs = [p \in 1..NumProcs |-> NoRequest]
    /\ ret = NoCall

NextMembers ==
    \/ \E u \in UserInputs : register_user(1, u) /\ UNCHANGED log
    \/ \E u \in UserInputs : unregister_user(1, u) /\ UNCHANGED log
    \/ \E q \in LabelQueueInputs, u \in UserInputs :
           create_task(q, u) /\ UNCHANGED log

SpecMembers == InitMembers /\ [][NextMembers]_vars

\* ------------------------------------------------------------------------
\* SpecConcurrent: worker threads serve create_task requests of the users of
\* one labelqueue at the same time; thread p serves user p
\* ------------------------------------------------------------------------
Procs == 1..NumProcs

InitConcurrent ==
    /\ get_next_assignment \in {"AttributeError", "get_next_task"}
    /\ \E d \in Datasets : labelqueue_dataset = [q \in LabelQueues |-> d]
    /\ labelqueue_users = [q \in LabelQueues |-> Procs]
    /\ \E type \in {"sequential", "random"} :
           queuestep = {QueueStep(1, 1, 1, type, 1, FALSE)}
    /\ task = <<>>
    /\ resp = NoResponse
    /\ log = <<>>
    /\ reqs = [p \in Procs |-> NoRequest]
    /\ ret = NoCall

NextConcurrent ==
    \/ \E p \in Procs : create_task_begin(p, 1, p)
    \/ \E p \in Procs : create_task_end(p)

SpecConcurrent == InitConcurrent /\ [][NextConcurrent]_vars

\* ------------------------------------------------------------------------
\* SpecScenarioA: a labelqueue over the dataset with records 1, 2, 3, one
\* sequential step with num_records = 3, three users; the users request tasks
\* one request at a time and every response is logged
\* ------------------------------------------------------------------------
ScenarioUsers == {1, 2, 3}

\* what a request found and what it did, kept with its response
LogEntry(r, ctx, created) == [resp |-> r, ctx |-> ctx, created |-> created]

\* the state create_task(q, user_id) finds, told from the tables alone
request_context(q, user_id) ==
    IF q \notin LabelQueues THEN "no_labelqueue"
    ELSE IF user_id \notin labelqueue_users[q] THEN "not_member"
    ELSE IF \A s \in queuestep : s.labelqueue_id # q THEN "no_steps"
    ELSE IF \A s \in queuestep : s.labelqueue_id = q => s.completed THEN "drained"
    ELSE IF labelqueue_dataset[q] = NULL THEN "no_dataset"
    ELSE IF \A i \in DOMAIN dataset_records(labelqueue_dataset[q]) :
               \E j \in DOMAIN task :
                   /\ task[j].labelqueue_id = q
                   /\ task[j].record_id = dataset_records(labelqueue_dataset[q])[i]
         THEN "exhausted"
    ELSE "available"

\* create_task(q, user_id) runs and its response is logged
logged_create_task(q, user_id) ==
    /\ create_task(q, user_id)
    /\ log' = Append(log, LogEntry(resp', request_context(q, user_id),
                                   Len(task') - Len(task)))

InitScenarioA ==
    /\ get_next_assignment \in {"AttributeError", "get_next_task"}
    /\ labelqueue_dataset = [q \in LabelQueues |-> IF q = 1 THEN 1 ELSE NULL]
    /\ labelqueue_users = [q \in LabelQueues |-> IF q = 1 THEN ScenarioUsers ELSE {}]
    /\ queuestep = {QueueStep(1, 1, 1, "sequential", 3, FALSE)}
    /\ task = <<>>
    /\ resp = NoResponse
    /\ log = <<>>
    /\ reqs = [p \in Procs |-> NoRequest]
    /\ ret = NoCall

NextScenarioA ==
    \E u \in ScenarioUsers : Len(log) < MaxLog /\ logged_create_task(1, u)

SpecScenarioA == InitScenarioA /\ [][NextScenarioA]_vars

\* ------------------------------------------------------------------------
\* SpecActive: get_active_queuestep on any QueueStep table
\* ------------------------------------------------------------------------
InitActive ==
    /\ get_next_assignment = "get_next_task"
    /\ labelqueue_dataset = [q \in LabelQueues |-> NULL]
    /\ labelqueue_users = [q \in LabelQueues |-> {}]
    /\ queuestep \in QueueStepTables(LabelQueues, {"sequential", "random"})
    /\ task = <<>>
    /\ resp = NoResponse
    /\ log = <<>>
    /\ reqs = [p \in Procs |-> NoRequest]
    /\ ret = NoCall

NextActive ==
    \E q \in LabelQueues : call_get_active_queuestep(q)

SpecActive == InitActive /\ [][NextActive]_vars

\* ------------------------------------------------------------------------
\* SpecSelect: QueueStep.get_next_task of a sequential or a random step of
\* labelqueue 1, on any Task table and any dataset binding
\* ------------------------------------------------------------------------
InitSelect ==
    /\ get_next_assignment = "get_next_task"
    /\ \E d \in Datasets \cup {NULL} :
           labelqueue_dataset = [q \in LabelQueues |-> d]
    /\ labelqueue_users = [q \in LabelQueues |-> {1}]
    /\ \E type \in {"sequential", "random"} :
           queuestep = {QueueStep(1, 1, 1, type, 1, FALSE)}
    /\ task \in TaskTables
    /\ resp = NoResponse
    /\ log = <<>>
    /\ reqs = [p \in Procs |-> NoRequest]
    /\ ret = NoCall

NextSelect ==
    call_get_next_task(1, 1)

SpecSelect == InitSelect /\ [][NextSelect]_vars

\* ------------------------------------------------------------------------
\* SpecDispatch: create_task on labelqueue 1 with any QueueStep table, while
\* steps are deleted; every response is logged
\* ------------------------------------------------------------------------
MaxCalls == 2

InitDispatch ==
    /\ get_next_assignment \in {"AttributeError", "get_next_task"}
    /\ \E d \in {NULL, 2} : labelqueue_dataset = [q \in LabelQueues |-> d]
    /\ labelqueue_users = [q \in LabelQueues |-> {1}]
    /\ queuestep \in QueueStepTables({1}, QueueType)
    /\ task = <<>>
    /\ resp = NoResponse
    /\ log = <<>>
    /\ reqs = [p \in Procs |-> NoRequest]
    /\ ret = NoCall

NextDispatch ==
    \/ \E u \in Users : Len(log) < MaxCalls /\ logged_create_task(1, u)
    \/ \E id \in 1..MaxStepId :
           /\ \E s \in queuestep : s.id = id
           /\ delete_queuestep(id)
           /\ UNCHANGED log

SpecDispatch == InitDispatch /\ [][NextDispatch]_vars

\* ------------------------------------------------------------------------
\* SpecPreconditions: labelqueue 1 with any QueueStep table, while its user and
\* its dataset are registered and unregistered, its steps are deleted and the
\* user requests tasks; the responses are observed
\* ------------------------------------------------------------------------
InitPreconditions ==
    /\ get_next_assignment \in {"AttributeError", "get_next_task"}
    /\ labelqueue_dataset = [q \in LabelQueues |-> NULL]
    /\ labelqueue_users = [q \in LabelQueues |-> {}]
    /\ queuestep \in QueueStepTables({1}, {"sequential"})
    /\ task = <<>>
    /\ resp = NoResponse
    /\ log = <<>>
    /\ reqs = [p \in Procs |-> NoRequest]
    /\ ret = NoCall

NextPreconditions ==
    \/ register_user(1, 1) /\ UNCHANGED log
    \/ unregister_user(1, 1) /\ UNCHANGED log
    \/ \E d \in {2, 3} : register_dataset(1, d) /\ UNCHANGED log
    \/ \E d \in {2, 3} : unregister_dataset(1, d) /\ UNCHANGED log
    \/ \E id \in 1..MaxStepId :
           /\ \E s \in queuestep : s.id = id
           /\ delete_queuestep(id)
           /\ UNCHANGED log
    \/ create_task(1, 1) /\ UNCHANGED log

SpecPreconditions == InitPreconditions /\ [][NextPreconditions]_vars

\* ------------------------------------------------------------------------
\* create_queuestep under concurrent requests: the handler reads the
\* labelqueue's steps and computes the rank (lines 452-461), and inserts the
\* row when it commits (lines 463-471); other requests may commit in between.
\* The unique index on the rank column is checked by the commit.
\* ------------------------------------------------------------------------
NoStepRequest ==
    [pc |-> "idle", labelqueue_id |-> NULL, type |-> "", num_records |-> 0,
     rank |-> NULL, resp |-> NoResponse]

\* lines 452-461 of create_queuestep, on worker thread p
create_queuestep_begin(p, q, type, num_records) ==
    /\ reqs[p].pc \in {"idle", "done"}
    /\ q \in LabelQueues => new_rank(q) <= MaxRank
    /\ reqs' = [reqs EXCEPT ![p] =
           IF num_records <= 0
           THEN [pc |-> "done", labelqueue_id |-> q, type |-> type,
                 num_records |-> num_records, rank |-> NULL,
                 resp |-> Response("create_queuestep", q, NULL, 422,
                                   "num_records: ensure this value is greater than 0",
                                   "", NULL)]
           ELSE IF q \notin LabelQueues
           THEN [pc |-> "done", labelqueue_id |-> q, type |-> type,
                 num_records |-> num_records, rank |-> NULL,
                 resp |-> Response("create_queuestep", q, NULL, 404,
                                   "LabelQueue not found", "", NULL)]
           ELSE [pc |-> "ranked", labelqueue_id |-> q, type |-> type,
                 num_records |-> num_records, rank |-> new_rank(q),
                 resp |-> NoResponse]]
    /\ UNCHANGED <<get_next_assignment, labelqueue_dataset, labelqueue_users,
                   queuestep, task, resp, log, ret>>

\* lines 463-471 of create_queuestep, on worker thread p
create_queuestep_end(p) ==
    /\ reqs[p].pc = "ranked"
    /\ next_queuestep_id <= MaxStepId
    /\ IF \E s \in queuestep : s.rank = reqs[p].rank
       THEN /\ Respond(Response("create_queuestep", reqs[p].labelqueue_id, NULL, 500,
                                "Internal Server Error",
                                "IntegrityError: UNIQUE constraint failed: queuestep.rank",
                                NULL))
            /\ UNCHANGED queuestep
       ELSE /\ queuestep' = queuestep \cup
                   {[id |-> next_queuestep_id,
                     labelqueue_id |-> reqs[p].labelqueue_id,
                     rank |-> reqs[p].rank, type |-> reqs[p].type,
                     num_records |-> reqs[p].num_records,
                     num_records_completed |-> 0, completed |-> FALSE]}
            /\ Respond(Response("create_queuestep", reqs[p].labelqueue_id, NULL,
                                200, "", "", NULL))
    /\ reqs' = [reqs EXCEPT ![p].pc = "done", ![p].resp = resp']
    /\ UNCHANGED <<get_next_assignment, labelqueue_dataset, labelqueue_users,
                   task, log, ret>>

\* ------------------------------------------------------------------------
\* SpecRanks: worker threads serve create_queuestep requests on the two
\* labelqueues at the same time, while steps are deleted
\* ------------------------------------------------------------------------
InitRanks ==
    /\ get_next_assignment \in {"AttributeError", "get_next_task"}
    /\ labelqueue_dataset = [q \in LabelQueues |-> NULL]
    /\ labelqueue_users = [q \in LabelQueues |-> {}]
    /\ queuestep = {}
    /\ task = <<>>
    /\ resp = NoResponse
    /\ log = <<>>
    /\ reqs = [p \in Procs |-> NoStepRequest]
    /\ ret = NoCall

NextRanks ==
    \/ \E p \in Procs, q \in LabelQueues :
           create_queuestep_begin(p, q, "sequential", 1)
    \/ \E p \in Procs : create_queuestep_end(p)
    \/ \E id \in 1..MaxStepId :
           /\ \E s \in queuestep : s.id = id
           /\ delete_queuestep(id)
           /\ UNCHANGED log

SpecRanks == InitRanks /\ [][NextRanks]_vars

\* ------------------------------------------------------------------------
\* SpecSteps: the steps of labelqueue 1 are created and updated while its user
\* requests tasks; the responses are observed
\* ------------------------------------------------------------------------
\* policy tags a request body may carry: the QueueType members and another
TypeInputs == QueueType \cup {"other"}

\* bodies of an update_queuestep request: one that sets num_records and one
\* that sets type
QueueStepUpdates ==
    {[num_records |-> n] : n \in {-1, 0, 2}} \cup {[type |-> t] : t \in TypeInputs}

InitSteps ==
    /\ get_next_assignment \in {"AttributeError", "get_next_task"}
    /\ labelqueue_dataset = [q \in LabelQueues |-> 2]
    /\ labelqueue_users = [q \in LabelQueues |-> {1}]
    /\ queuestep = {}
    /\ task = <<>>
    /\ resp = NoResponse
    /\ log = <<>>
    /\ reqs = [p \in Procs |-> NoRequest]
    /\ ret = NoCall

NextSteps ==
    \/ \E type \in TypeInputs, n \in NumRecordsInputs :
           create_queuestep(1, type, n) /\ UNCHANGED log
    \/ \E id \in 1..MaxStepId, body \in QueueStepUpdates :
           update_queuestep(id, body) /\ UNCHANGED log
    \/ create_task(1, 1) /\ UNCHANGED log

SpecSteps == InitSteps /\ [][NextSteps]_vars

\* ------------------------------------------------------------------------
\* SpecBinding: datasets are registered to and unregistered from the
\* labelqueues; the responses are observed
\* ------------------------------------------------------------------------
InitBinding ==
    /\ get_next_assignment \in {"AttributeError", "get_next_task"}
    /\ labelqueue_dataset = [q \in LabelQueues |-> NULL]
    /\ labelqueue_users = [q \in LabelQueues |-> {}]
    /\ queuestep = {}
    /\ task = <<>>
    /\ resp = NoResponse
    /\ log = <<>>
    /\ reqs = [p \in Procs |-> NoRequest]
    /\ ret = NoCall

NextBinding ==
    \/ \E q \in LabelQueueInputs, d \in DatasetInputs :
           register_dataset(q, d) /\ UNCHANGED log
    \/ \E q \in LabelQueueInputs, d \in DatasetInputs :
           unregister_dataset(q, d) /\ UNCHANGED log

SpecBinding == InitBinding /\ [][NextBinding]_vars

\* ------------------------------------------------------------------------
\* Task completion.  app.py has no handler that completes a Task: models.py
\* declares Task.completed, Task.completed_data and TaskUpdate, and nothing
\* writes them.  complete is the operation as the specification describes it:
\* it sets completed and stores the payload, fails with TaskNotFound for an id
\* with no Task and with AlreadyCompleted for a Task that is completed.
\* ------------------------------------------------------------------------
\* result payloads a request may carry
Payloads == {{<<"label", "cat">>}, {<<"label", "dog">>}}

\* a faulty variant: a completed Task is completed again
complete_again(task_id, result_payload) ==
    /\ IF task_id \notin DOMAIN task
       THEN /\ Respond(Response("complete", NULL, NULL, 404, "TaskNotFound", "",
                                task_id))
            /\ UNCHANGED task
       ELSE /\ task' = [task EXCEPT ![task_id].completed = TRUE,
                                    ![task_id].completed_data = result_payload]
            /\ Respond(Response("complete", NULL, NULL, 200, "", "", task_id))
    /\ UNCHANGED <<get_next_assignment, labelqueue_dataset, labelqueue_users,
                   queuestep, reqs, ret>>

complete(task_id, result_payload) ==
    /\ IF task_id \notin DOMAIN task
       THEN /\ Respond(Response("complete", NULL, NULL, 404, "TaskNotFound", "",
                                task_id))
            /\ UNCHANGED task
       ELSE IF task[task_id].completed
       THEN /\ Respond(Response("complete", NULL, NULL, 409, "AlreadyCompleted", "",
                                task_id))
            /\ UNCHANGED task
       ELSE /\ task' = [task EXCEPT ![task_id].completed = TRUE,
                                    ![task_id].completed_data = result_payload]
            /\ Respond(Response("complete", NULL, NULL, 200, "", "", task_id))
    /\ UNCHANGED <<get_next_assignment, labelqueue_dataset, labelqueue_users,
                   queuestep, reqs, ret>>

\* ------------------------------------------------------------------------
\* SpecComplete: the users of labelqueue 1 request tasks and complete them;
\* the responses are observed
\* ------------------------------------------------------------------------
InitComplete ==
    /\ get_next_assignment \in {"AttributeError", "get_next_task"}
    /\ labelqueue_dataset = [q \in LabelQueues |-> 1]
    /\ labelqueue_users = [q \in LabelQueues |-> Users]
    /\ queuestep = {QueueStep(1, 1, 1, "sequential", 3, FALSE)}
    /\ task = <<>>
    /\ resp = NoResponse
    /\ log = <<>>
    /\ reqs = [p \in Procs |-> NoRequest]
    /\ ret = NoCall

NextComplete ==
    \/ \E u \in Users : create_task(1, u) /\ UNCHANGED log
    \/ \E task_id \in 1..(Len(task) + 1), result_payload \in Payloads :
           complete(task_id, result_payload) /\ UNCHANGED log

SpecComplete == InitComplete /\ [][NextComplete]_vars

\* ------------------------------------------------------------------------
\* SpecProgress: labelqueue 1 with a fixed, non-empty set of sequential and
\* random steps, none completed, over a dataset; its users keep requesting
\* tasks: a request that can change the state is eventually served
\* ------------------------------------------------------------------------
InitProgress ==
    /\ get_next_assignment \in {"AttributeError", "get_next_task"}
    /\ \E d \in {1, 2} : labelqueue_dataset = [q \in LabelQueues |-> d]
    /\ labelqueue_users = [q \in LabelQueues |-> Users]
    /\ queuestep \in {T \in QueueStepTables({1}, {"sequential", "random"}) :
                         T # {} /\ \A s \in T : ~s.completed}
    /\ task = <<>>
    /\ resp = NoResponse
    /\ log = <<>>
    /\ reqs = [p \in Procs |-> NoRequest]
    /\ ret = NoCall

NextProgress ==
    \E u \in Users : create_task(1, u) /\ UNCHANGED log

SpecProgress == InitProgress /\ [][NextProgress]_vars /\ WF_vars(NextProgress)

\* ------------------------------------------------------------------------
\* SpecRankScope: steps of any policy are created in the two labelqueues and
\* deleted, one request at a time; the responses are observed
\* ------------------------------------------------------------------------
InitRankScope ==
    /\ get_next_assignment \in {"AttributeError", "get_next_task"}
    /\ labelqueue_dataset = [q \in LabelQueues |-> NULL]
    /\ labelqueue_users = [q \in LabelQueues |-> {}]
    /\ queuestep = {}
    /\ task = <<>>
    /\ resp = NoResponse
    /\ log = <<>>
    /\ reqs = [p \in Procs |-> NoRequest]
    /\ ret = NoCall

NextRankScope ==
    \/ \E q \in LabelQueues, type \in QueueType :
           create_queuestep(q, type, 1) /\ UNCHANGED log
    \/ \E id \in 1..MaxStepId :
           /\ \E s \in queuestep : s.id = id
           /\ delete_queuestep(id)
           /\ UNCHANGED log

SpecRankScope == InitRankScope /\ [][NextRankScope]_vars

\* ------------------------------------------------------------------------
\* The other update handlers.  Their bodies set name, description, data, email
\* or role, columns that no relationship and no dispatch reads, so an update of
\* a stored row changes nothing of db.  Like update_queuestep, each handler
\* tests the request body, not the row session.get returned, for "not found":
\* with an id that has no row, setattr is applied to None.
\* ------------------------------------------------------------------------
RecordInputs == Records \cup {5}

\* the response of an update of a row that is stored or not
update_response(op, stored) ==
    IF stored THEN Response(op, NULL, NULL, 200, "", "", NULL)
    ELSE Response(op, NULL, NULL, 500, "Internal Server Error", NoStepError, NULL)

update_dataset(dataset_id) ==
    /\ Respond(update_response("update_dataset", dataset_id \in Datasets))
    /\ UNCHANGED <<get_next_assignment, labelqueue_dataset, labelqueue_users,
                   queuestep, task, log, reqs, ret>>

update_record(record_id) ==
    /\ Respond(update_response("update_record", record_id \in Records))
    /\ UNCHANGED <<get_next_assignment, labelqueue_dataset, labelqueue_users,
                   queuestep, task, log, reqs, ret>>

update_user(user_id) ==
    /\ Respond(update_response("update_user", user_id \in Users))
    /\ UNCHANGED <<get_next_assignment, labelqueue_dataset, labelqueue_users,
                   queuestep, task, log, reqs, ret>>

update_labelqueue(labelqueue_id) ==
    /\ Respond(update_response("update_labelqueue", labelqueue_id \in LabelQueues))
    /\ UNCHANGED <<get_next_assignment, labelqueue_dataset, labelqueue_users,
                   queuestep, task, log, reqs, ret>>

\* ------------------------------------------------------------------------
\* SpecUpdates: the five update handlers, with ids of stored rows and ids that
\* have no row, on a labelqueue whose steps are created along the way; the
\* responses are observed
\* ------------------------------------------------------------------------
InitUpdates ==
    /\ get_next_assignment \in {"AttributeError", "get_next_task"}
    /\ labelqueue_dataset = [q \in LabelQueues |-> 2]
    /\ labelqueue_users = [q \in LabelQueues |-> {1}]
    /\ queuestep = {}
    /\ task = <<>>
    /\ resp = NoResponse
    /\ log = <<>>
    /\ reqs = [p \in Procs |-> NoRequest]
    /\ ret = NoCall

NextUpdates ==
    \/ \E type \in QueueType : create_queuestep(1, type, 1) /\ UNCHANGED log
    \/ \E id \in 1..MaxStepId, body \in QueueStepUpdates :
           update_queuestep(id, body) /\ UNCHANGED log
    \/ \E dataset_id \in DatasetInputs : update_dataset(dataset_id)
    \/ \E record_id \in RecordInputs : update_record(record_id)
    \/ \E user_id \in UserInputs : update_user(user_id)
    \/ \E labelqueue_id \in LabelQueueInputs : update_labelqueue(labelqueue_id)

SpecUpdates == InitUpdates /\ [][NextUpdates]_vars

\* ------------------------------------------------------------------------
\* SpecEffects: create_task requests by a member and by a non-member, logged,
\* and direct calls of the two get_next_task methods, on labelqueue 1 with any
\* table of sequential, random and consensus steps, with dataset 2 or none
\* ------------------------------------------------------------------------
EffectTypes == {"sequential", "random", "consensus"}

InitEffects ==
    /\ get_next_assignment \in {"AttributeError", "get_next_task"}
    /\ \E d \in {NULL, 2} : labelqueue_dataset = [q \in LabelQueues |-> d]
    /\ labelqueue_users = [q \in LabelQueues |-> {1}]
    /\ queuestep \in QueueStepTables({1}, EffectTypes)
    /\ task = <<>>
    /\ resp = NoResponse
    /\ log = <<>>
    /\ reqs = [p \in Procs |-> NoRequest]
    /\ ret = NoCall

NextEffects ==
    \/ \E u \in Users : Len(log) < MaxCalls /\ logged_create_task(1, u)
    \/ call_LabelQueue_get_next_task(1, 1) /\ UNCHANGED log
    \/ \E id \in 1..MaxStepId :
           /\ \E s \in queuestep : s.id = id
           /\ call_get_next_task(id, 1)
           /\ UNCHANGED log

SpecEffects == InitEffects /\ [][NextEffects]_vars

\* ------------------------------------------------------------------------
\* SpecConsistency: create_task requests on two worker threads, each in its two
\* parts, with unregister_dataset, register_dataset and delete_queuestep
\* requests served in between
\* ------------------------------------------------------------------------
InitConsistency ==
    /\ get_next_assignment \in {"AttributeError", "get_next_task"}
    /\ labelqueue_dataset = [q \in LabelQueues |-> 1]
    /\ labelqueue_users = [q \in LabelQueues |-> Procs]
    /\ \E type \in {"sequential", "random"} :
           queuestep = {QueueStep(1, 1, 1, type, 1, FALSE),
                        QueueStep(2, 1, 2, type, 1, FALSE)}
    /\ task = <<>>
    /\ resp = NoResponse
    /\ log = <<>>
    /\ reqs = [p \in Procs |-> NoRequest]
    /\ ret = NoCall

NextConsistency ==
    \/ \E p \in Procs : Len(task) < MaxTasks /\ create_task_begin(p, 1, p)
    \/ \E p \in Procs : create_task_end(p)
    \/ \E d \in {1, 2} : unregister_dataset(1, d) /\ UNCHANGED log
    \/ \E d \in {1, 2} : register_dataset(1, d) /\ UNCHANGED log
    \/ \E id \in 1..MaxStepId :
           /\ \E s \in queuestep : s.id = id
           /\ delete_queuestep(id)
           /\ UNCHANGED log

SpecConsistency == InitConsistency /\ [][NextConsistency]_vars

\* ------------------------------------------------------------------------
\* Properties
\* ------------------------------------------------------------------------
\* the record ids of the Tasks of labelqueue q
assigned_records(q) ==
    {task[i].record_id : i \in {j \in DOMAIN task : task[j].labelqueue_id = q}}

\* the eligible set of labelqueue q: the records of its dataset that have no
\* Task in q
Eligible(q) ==
    IF labelqueue_dataset[q] = NULL THEN {}
    ELSE {r \in Records : record_dataset(r) = labelqueue_dataset[q]}
             \ assigned_records(q)

\* a response that reports an exception: one that left the handler (500) or
\* one the handler caught and reported as the reason of its 404
IsErrorResponse(r) == r.status = 500 \/ r.reason # ""

\* a response that tells the caller there is no work: it is not a Task, not an
\* error, not a denial and not a missing labelqueue
IsNoWork(r) ==
    /\ r.op = "create_task"
    /\ r.status # 200
    /\ ~IsErrorResponse(r)
    /\ r.detail \notin {"User does not belong to labelqueue", "LabelQueue not found"}

\* what the caller sees of a response
Observable(r) == <<r.status, r.detail, r.reason>>

C2_OneWinner ==
    \A p, r \in Procs :
        ( /\ p # r
          /\ reqs[p].pc = "done" /\ reqs[r].pc = "done"
          /\ reqs[p].labelqueue_id = reqs[r].labelqueue_id
          /\ reqs[p].tasks_seen = reqs[r].tasks_seen
          /\ reqs[p].remaining = 1 /\ reqs[r].remaining = 1 )
        => /\ (reqs[p].resp.status = 200) # (reqs[r].resp.status = 200)
           /\ reqs[p].resp.status # 200 => IsNoWork(reqs[p].resp)
           /\ reqs[r].resp.status # 200 => IsNoWork(reqs[r].resp)
           /\ Len(labelqueue_tasks(reqs[p].labelqueue_id)) = reqs[p].tasks_seen + 1

\* C3: with the handlers run one at a time, every Task of a labelqueue has a
\* record of its own: a record that has a Task in the labelqueue, issued under
\* any step, is not issued again in it.
C3_RecordOncePerQueue ==
    \A q \in LabelQueues :
        Cardinality(assigned_records(q)) = Len(labelqueue_tasks(q))

\* two Tasks of labelqueue 1, the first issued under a step that has since
\* been deleted, the second under a step created after it
C3_Witness ==
    /\ Len(task) = 2
    /\ task[1].labelqueue_id = 1 /\ task[2].labelqueue_id = 1
    /\ task[1].queuestep_id = NULL /\ task[2].queuestep_id # NULL

\* C4: get_active_queuestep returns the step of least rank among the
\* labelqueue's steps that are not completed, None exactly when there is no
\* such step, and no other step of the labelqueue is of that rank.
C4_ActiveIsMinRankIncomplete ==
    ret.call = "get_active_queuestep" =>
        LET incomplete == {s \in queuestep :
                               s.labelqueue_id = ret.arg /\ ~s.completed}
        IN  /\ (ret.value = NoQueueStep) <=> (incomplete = {})
            /\ incomplete # {} =>
                   /\ ret.value \in incomplete
                   /\ \A s \in incomplete : ret.value.rank <= s.rank
                   /\ \A s \in incomplete : s.rank = ret.value.rank => s = ret.value

\* the returned step is not the labelqueue's step of least rank (that one is
\* completed) and not its step of least id
C4_Witness ==
    /\ ret.call = "get_active_queuestep"
    /\ ret.value # NoQueueStep
    /\ \E s \in queuestep :
           /\ s.labelqueue_id = ret.arg /\ s.completed
           /\ s.rank < ret.value.rank /\ s.id > ret.value.id

\* C5: a sequential step's get_next_task returns the eligible record of least
\* id whenever the eligible set is not empty, and two calls on the same ledger
\* return the same value.
C5_SequentialLowest ==
    (ret.call = "get_next_task"
        /\ \E s \in queuestep : s.id = ret.arg /\ s.type = "sequential") =>
        LET step == CHOOSE s \in queuestep : s.id = ret.arg
            E == Eligible(step.labelqueue_id)
        IN  /\ E # {} =>
                   /\ ret.value.kind = "NextTask"
                   /\ ret.value.record_id \in E
                   /\ \A r \in E : ret.value.record_id <= r
            /\ ret.again = ret.value

\* the call returned record 2 while record 3 was eligible too and record 1
\* had a Task in the labelqueue
C5_Witness ==
    /\ ret.call = "get_next_task"
    /\ \E s \in queuestep : s.id = ret.arg /\ s.type = "sequential"
    /\ ret.value.kind = "NextTask" /\ ret.value.record_id = 2
    /\ 3 \in Eligible(1) /\ 1 \in assigned_records(1)

\* C6: in scenario A the first three requests, by three distinct users, get
\* the records 1, 2, 3 in that order, and a fourth request gets a no-work
\* response and adds no Task.
C6_ScenarioA ==
    \A k \in DOMAIN log :
        (\A m, n \in 1..(IF k < 3 THEN k ELSE 3) :
             m # n => log[m].resp.user_id # log[n].resp.user_id)
        => /\ k <= 3 => /\ log[k].resp.status = 200
                        /\ log[k].resp.task_id \in DOMAIN task
                        /\ task[log[k].resp.task_id].record_id = k
           /\ k = 4 => IsNoWork(log[k].resp) /\ log[k].created = 0

C8_MembersOnly ==
    [][ /\ (resp'.op = "create_task"
              /\ resp'.labelqueue_id \in LabelQueues
              /\ resp'.user_id \notin labelqueue_users[resp'.labelqueue_id])
           => /\ resp'.status = 404
              /\ resp'.detail = "User does not belong to labelqueue"
              /\ task' = task
        /\ Len(task') > Len(task)
           => task'[Len(task')].user_id
                  \in labelqueue_users[task'[Len(task')].labelqueue_id]
      ]_vars

\* a user who holds a Task of the labelqueue, and has been unregistered since,
\* is denied
C8_Witness ==
    /\ resp.op = "create_task" /\ resp.status = 404
    /\ resp.detail = "User does not belong to labelqueue"
    /\ \E i \in DOMAIN task :
           /\ task[i].user_id = resp.user_id
           /\ task[i].labelqueue_id = resp.labelqueue_id

has_task_preconditions(q) ==
    /\ labelqueue_users[q] # {}
    /\ \E s \in queuestep : s.labelqueue_id = q /\ ~s.completed
    /\ labelqueue_dataset[q] # NULL
    /\ Len(dataset_records(labelqueue_dataset[q])) > 0

\* C11: a Task is added only in a state where its labelqueue has a registered
\* user, a step that is not completed and a dataset with at least one record;
\* a create_task request in a state that lacks one of them does not answer 200
\* and adds no Task.
C11_TaskPreconditions ==
    [][ /\ Len(task') > Len(task)
           => has_task_preconditions(task'[Len(task')].labelqueue_id)
        /\ (resp'.op = "create_task"
              /\ resp'.labelqueue_id \in LabelQueues
              /\ ~has_task_preconditions(resp'.labelqueue_id))
           => resp'.status # 200 /\ task' = task
      ]_vars

\* a registered user's request on a labelqueue that has a step to dispatch
\* but no dataset has failed
C11_Witness ==
    /\ resp.op = "create_task" /\ resp.status # 200
    /\ resp.user_id \in labelqueue_users[resp.labelqueue_id]
    /\ \E s \in queuestep : s.labelqueue_id = resp.labelqueue_id /\ ~s.completed
    /\ labelqueue_dataset[resp.labelqueue_id] = NULL

\* C12: under concurrent create_queuestep and delete_queuestep requests the
\* ranks of the steps of a labelqueue are pairwise distinct, and the rank of a
\* step that is created is one more than the greatest rank of the labelqueue's
\* existing steps (1 when it has none).
C12_RanksAppend ==
    [][ /\ \A s, t \in queuestep' :
               (s # t /\ s.labelqueue_id = t.labelqueue_id) => s.rank # t.rank
        /\ \A s \in queuestep' \ queuestep :
               LET existing == {t \in queuestep : t.labelqueue_id = s.labelqueue_id}
               IN  s.rank = IF existing = {} THEN 1
                            ELSE 1 + MaxOf({t.rank : t \in existing})
      ]_vars

\* C13: every step's num_records is greater than 0 after any sequence of
\* create_queuestep and update_queuestep requests: a request that would set a
\* value that is not positive leaves the step as it was.
C13_NumRecordsPositive ==
    \A s \in queuestep : s.num_records > 0

\* C14: every step's num_records_completed is at most its num_records, across
\* create_queuestep, update_queuestep and create_task.
C14_CompletedAtMostTarget ==
    \A s \in queuestep : s.num_records_completed <= s.num_records

C16_OneDataset ==
    [][ /\ (resp'.op = "register_dataset"
              /\ resp'.labelqueue_id \in LabelQueues
              /\ labelqueue_dataset[resp'.labelqueue_id] # NULL)
           => /\ resp'.status = 406
              /\ labelqueue_dataset' = labelqueue_dataset
        /\ \A q \in LabelQueues :
               labelqueue_dataset'[q] # labelqueue_dataset[q]
                   => labelqueue_dataset[q] = NULL \/ labelqueue_dataset'[q] = NULL
      ]_vars

\* a register_dataset request on a labelqueue that has a dataset was refused
\* while the other labelqueue has another dataset
C16_Witness ==
    /\ resp.op = "register_dataset" /\ resp.status = 406
    /\ resp.labelqueue_id \in LabelQueues
    /\ labelqueue_dataset[resp.labelqueue_id] # NULL
    /\ \E q \in LabelQueues :
           labelqueue_dataset[q] \notin {NULL, labelqueue_dataset[resp.labelqueue_id]}

\* C17: create_task adds at most one Task and changes no other, and
\* register_dataset, unregister_dataset, register_user and unregister_user
\* leave every Task as it is: in a step that leaves the QueueStep table alone,
\* the Task table keeps all its rows and gains at most one.
C17_TasksAppendOnly ==
    [][ queuestep' = queuestep =>
            /\ Len(task') \in {Len(task), Len(task) + 1}
            /\ \A i \in DOMAIN task : task'[i] = task[i]
      ]_vars

\* a Task of a labelqueue whose dataset and user have been unregistered since
\* it was issued
C17_Witness ==
    \E i \in DOMAIN task :
        /\ labelqueue_dataset[task[i].labelqueue_id] = NULL
        /\ labelqueue_users[task[i].labelqueue_id] = {}
        /\ task[i].dataset_id # NULL

\* C18: a Task's completed flag is set only by a complete request that
\* succeeds on it; a complete request on a Task that is completed fails with
\* AlreadyCompleted and leaves the Task table, the flag and the payload
\* included, as it was; a completed Task keeps its flag and its payload.
C18_CompleteOnce ==
    [][ /\ \A i \in DOMAIN task :
               /\ task[i].completed =>
                      /\ i \in DOMAIN task'
                      /\ task'[i].completed
                      /\ task'[i].completed_data = task[i].completed_data
               /\ (~task[i].completed /\ i \in DOMAIN task' /\ task'[i].completed) =>
                      /\ resp'.op = "complete" /\ resp'.task_id = i
                      /\ resp'.status = 200
        /\ (resp'.op = "complete" /\ resp'.task_id \in DOMAIN task
              /\ task[resp'.task_id].completed)
           => resp'.detail = "AlreadyCompleted" /\ task' = task
        /\ \A i \in DOMAIN task' \ DOMAIN task : ~task'[i].completed
      ]_vars

\* a complete request with another payload on a completed Task has failed
C18_Witness ==
    /\ resp.op = "complete" /\ resp.detail = "AlreadyCompleted"
    /\ resp.task_id \in DOMAIN task
    /\ task[resp.task_id].completed
    /\ \E i \in DOMAIN task : ~task[i].completed

\* the exceptions by which the dispatcher reports a policy it does not
\* implement
PolicyNotImplemented ==
    {"NotImplementedError: _get_next_task_consensus has not been implemented",
     "NotImplementedError: _get_next_task_priority has not been implemented",
     "NotImplementedError: queue policy has not been implemented"}

C20_EventuallyDrained ==
    <>(get_active_queuestep(1) = NoQueueStep)

\* C21: a create_queuestep request with a valid body on a stored labelqueue
\* succeeds whatever steps the other labelqueue holds, and the step it adds has
\* the rank that follows the labelqueue's own steps: 1 for the labelqueue's
\* first step, also when the other labelqueue has a step of rank 1.
C21_RankPerQueue ==
    [][ \A q \in LabelQueues, type \in QueueType :
            create_queuestep(q, type, 1) =>
                /\ resp'.status = 200
                /\ \E s \in queuestep' \ queuestep :
                       /\ s.labelqueue_id = q
                       /\ s.rank = new_rank(q)
      ]_vars

\* C22: for a random step, each record a call of get_next_task returns is in
\* the eligible set of the step's labelqueue at the time of the call: it is a
\* record of the dataset registered to the labelqueue and has no Task in the
\* labelqueue; a call returns no record exactly when the eligible set is empty.
C22_RandomWithinEligible ==
    (ret.call = "get_next_task"
        /\ \E s \in queuestep : s.id = ret.arg /\ s.type = "random") =>
        LET step == CHOOSE s \in queuestep : s.id = ret.arg
            q == step.labelqueue_id
            E == Eligible(q)
        IN  \A v \in {ret.value, ret.again} :
                /\ v.kind = "NextTask" <=> E # {}
                /\ v.kind = "NextTask" =>
                       /\ v.record_id \in E
                       /\ v.dataset_id = labelqueue_dataset[q]
                       /\ record_dataset(v.record_id) = labelqueue_dataset[q]
                       /\ v.record_id \notin assigned_records(q)

\* a random step returned record 3 and, asked again on the same ledger,
\* record 2, while record 1 had a Task in the labelqueue
C22_Witness ==
    /\ ret.call = "get_next_task"
    /\ \E s \in queuestep : s.id = ret.arg /\ s.type = "random"
    /\ ret.value.kind = "NextTask" /\ ret.value.record_id = 3
    /\ ret.again.kind = "NextTask" /\ ret.again.record_id = 2
    /\ 1 \in assigned_records(1)

\* C23: each of update_dataset, update_record, update_user, update_queuestep
\* and update_labelqueue, called with a body it accepts and an id that no
\* stored row has, answers 404 and leaves the stored state as it was.
C23_UpdateMissingIsNotFound ==
    [][ /\ \A id \in 1..MaxStepId, body \in QueueStepUpdates :
               (/\ update_queuestep(id, body)
                /\ \A s \in queuestep : s.id # id
                /\ "type" \in DOMAIN body => body.type \in QueueType) =>
                   resp'.status = 404 /\ db' = db
        /\ \A dataset_id \in DatasetInputs \ Datasets :
               update_dataset(dataset_id) => resp'.status = 404 /\ db' = db
        /\ \A record_id \in RecordInputs \ Records :
               update_record(record_id) => resp'.status = 404 /\ db' = db
        /\ \A user_id \in UserInputs \ Users :
               update_user(user_id) => resp'.status = 404 /\ db' = db
        /\ \A labelqueue_id \in LabelQueueInputs \ LabelQueues :
               update_labelqueue(labelqueue_id) => resp'.status = 404 /\ db' = db
      ]_vars

\* C24: a call of LabelQueue.get_next_task or QueueStep.get_next_task leaves
\* tasks, steps, membership and dataset binding as they were, and so does
\* every create_task request that does not answer with a Task (non-member, no
\* active step, no dataset, policy not implemented, no eligible record).
C24_SelectionAndFailuresKeepState ==
    [][ /\ ret' # ret => db' = db
        /\ (log' # log /\ resp'.status # 200) => db' = db
      ]_vars

\* a second create_task request found no eligible record and ended in an
\* error response while the first request's Task was in the table
C24_Witness ==
    /\ Len(log) = 2
    /\ resp.op = "create_task" /\ resp.status = 500 /\ resp.reason = NoneTaskError
    /\ Len(task) = 1

====
